---- MODULE Spec2Model ----
(***************************************************************************)
(* Model of app.py (lash-financials): the expense parser, the P&L          *)
(* statement builder, the tax text, and the Flask handlers that mutate the *)
(* process-wide STATE object.                                              *)
(*                                                                         *)
(* Conventions                                                             *)
(*  - a Python str is a tuple of one-character strings, so that strip(),   *)
(*    replace(), `in` and float() are computed on the characters;          *)
(*  - a float is [k, n, d]: k = "num" is the rational n/d. Money is kept   *)
(*    in cents (d = 1), a percentage rate in hundredths of a percent;      *)
(*    k = "nan" is float('nan'); k = "str" is the empty string that the    *)
(*    statement rows use for a missing amount;                             *)
(*  - None, NaN (an empty spreadsheet cell) and NaT are tuples holding one *)
(*    multi-character string, so they differ from every Python str;        *)
(*  - a DataFrame held in STATE is <<"DataFrame", rows>>, each row a tuple  *)
(*    of cells.                                                            *)
(***************************************************************************)
EXTENDS Integers, Sequences, FiniteSets, TLC

VARIABLES
    \* STATE, the process-wide AppState object
    State,
    \* the message flashed by the last request: <<text, exception, category>>
    flash,
    \* _parse_expenses: argument and locals
    exp_df, i, curr_cat, expenses_list,
    \* _build_report_and_tables: arguments
    sales_summary, expenses_df,
    \* position of the function under check
    pc

vars == <<State, flash, exp_df, i, curr_cat, expenses_list,
          sales_summary, expenses_df, pc>>

web_vars == <<State, flash>>
parse_vars == <<exp_df, i, curr_cat, expenses_list>>

-----------------------------------------------------------------------------
(* Bounds *)

\* longest expense table over the full row alphabet fed to _parse_expenses
MaxRows == 3

\* longest expense table over the layout rows (headers, markers, one
\* transaction) fed to _parse_expenses
MaxLayoutRows == 5

\* longest expense ledger fed to _build_report_and_tables
MaxLedger == 3

-----------------------------------------------------------------------------
(* Python values *)

None == <<"None">>
NaN == <<"NaN">>
NaT == <<"NaT">>

Num(n) == [k |-> "num", n |-> n, d |-> 1]
NaNVal == [k |-> "nan", n |-> 0, d |-> 1]
EmptyStr == [k |-> "str", n |-> 0, d |-> 1]
ValueError == [k |-> "ValueError", n |-> 0, d |-> 1]

\* truth value of a row cell: "" and 0 are falsy
Truthy(v) == IF v.k = "str" THEN FALSE ELSE IF v.k = "num" THEN v.n # 0 ELSE TRUE

SetMin(S) == CHOOSE x \in S : \A y \in S : x <= y
SetMax(S) == CHOOSE x \in S : \A y \in S : x >= y
Abs(x) == IF x < 0 THEN -x ELSE x

-----------------------------------------------------------------------------
(* String literals of the source *)

Vendor == <<"V","e","n","d","o","r">>
Total == <<"T","o","t","a","l">>
TotalExpenses == <<"T","o","t","a","l"," ","E","x","p","e","n","s","e","s">>
Report == <<"R","e","p","o","r","t">>
nan == <<"n","a","n">>
NetSalesKey == <<"N","e","t"," ","S","a","l","e","s">>
GratuityKey == <<"G","r","a","t","u","i","t","y">>
TaxKey == <<"T","a","x">>
PrepaymentsKey == <<"P","r","e","p","a","y","m","e","n","t","s"," ","F","o","r"," ","F","u","t","u","r","e"," ","S","a","l","e","s">>
ProcessingFeesKey == <<"P","a","y","m","e","n","t"," ","P","r","o","c","e","s","s","i","n","g"," ","F","e","e","s"," ","P","a","i","d"," ","B","y"," ","B","u","s","i","n","e","s","s">>
BackBar == <<"B","a","c","k"," ","B","a","r">>
Inventory == <<"I","n","v","e","n","t","o","r","y">>
L_REVENUE == <<"R","E","V","E","N","U","E">>
L_NetSales == <<" "," ","N","e","t"," ","S","a","l","e","s">>
L_TaxCollected == <<" "," ","T","a","x"," ","C","o","l","l","e","c","t","e","d">>
L_Prepayments == <<" "," ","P","r","e","p","a","y","m","e","n","t","s">>
L_Tips == <<" "," ","T","i","p","s","/","G","r","a","t","u","i","t","y">>
L_TOTAL_REVENUE == <<"T","O","T","A","L"," ","R","E","V","E","N","U","E">>
L_COGS == <<"C","O","G","S">>
L_TOTAL_COGS == <<"T","O","T","A","L"," ","C","O","G","S">>
L_GROSS_MARGIN == <<"G","R","O","S","S"," ","M","A","R","G","I","N">>
L_OPERATING_EXPENSES == <<"O","P","E","R","A","T","I","N","G"," ","E","X","P","E","N","S","E","S">>
L_SalesTaxPaidOut == <<" "," ","S","a","l","e","s"," ","T","a","x"," ","P","a","i","d"," ","O","u","t">>
L_ProcessingFees == <<" "," ","P","r","o","c","e","s","s","i","n","g"," ","F","e","e","s">>
L_TOTAL_OPEX == <<"T","O","T","A","L"," ","O","P","E","X">>
L_NET_PROFIT == <<"N","E","T"," ","P","R","O","F","I","T">>

-----------------------------------------------------------------------------
(* Cells the model feeds to the parsers *)

Rent == <<"R","e","n","t">>
Supplies == <<"S","u","p","p","l","i","e","s">>
VendorPadded == <<"V","e","n","d","o","r"," ">>
ExpenseReport == <<"E","x","p","e","n","s","e"," ","R","e","p","o","r","t">>
AcmeCo == <<"A","c","m","e"," ","C","o">>
Date1 == <<"2","0","2","4","-","0","3","-","1","5">>
NotADate == <<"n","/","a">>
Amt1234_56 == <<"$","1",",","2","3","4",".","5","6">>
Amt100 == <<"1","0","0">>
AmtNeg50 == <<"-","5","0",".","5">>
AmtAbc == <<"a","b","c">>

-----------------------------------------------------------------------------
(* str methods, float() and pd.to_datetime on the characters *)

\* str(cell): an empty cell is the float nan, whose str is "nan"
Str(c) == IF c = NaN THEN nan ELSE c

\* s.strip()
Strip(s) ==
    LET ns == {j \in 1..Len(s) : s[j] # " "}
    IN  IF ns = {} THEN <<>> ELSE SubSeq(s, SetMin(ns), SetMax(ns))

\* sub in s
Contains(sub, s) ==
    \E j \in 1..(Len(s) - Len(sub) + 1) : SubSeq(s, j, j + Len(sub) - 1) = sub

\* s.replace(ch, "")
Remove(s, ch) == SelectSeq(s, LAMBDA c : c # ch)

Digits == <<"0","1","2","3","4","5","6","7","8","9">>
IsDigit(c) == \E v \in 1..Len(Digits) : Digits[v] = c
DigitVal(c) == (CHOOSE v \in 1..Len(Digits) : Digits[v] = c) - 1
IsDigits(s) == \A j \in 1..Len(s) : IsDigit(s[j])

RECURSIVE ToNat(_)
ToNat(s) ==
    IF Len(s) = 0 THEN 0
    ELSE ToNat(SubSeq(s, 1, Len(s) - 1)) * 10 + DigitVal(s[Len(s)])

\* the value, in cents, of the decimal <ip>.<fp> (digits past the cent dropped)
Cents(ip, fp) ==
    ToNat(ip) * 100
    + (IF Len(fp) = 0 THEN 0
       ELSE IF Len(fp) = 1 THEN ToNat(fp) * 10
       ELSE ToNat(SubSeq(fp, 1, 2)))

\* float(s) for the literals of the model's alphabet: surrounding blanks are
\* ignored, then an optional sign and either "nan" or a decimal numeral;
\* anything else raises ValueError
Float(s) ==
    LET t    == Strip(s)
        sgn  == IF Len(t) > 0 /\ t[1] = "-" THEN -1 ELSE 1
        u    == IF Len(t) > 0 /\ t[1] \in {"+", "-"} THEN Tail(t) ELSE t
        dots == {j \in 1..Len(u) : u[j] = "."}
    IN  IF u = nan THEN NaNVal
        ELSE IF dots = {}
        THEN IF Len(u) > 0 /\ IsDigits(u) THEN Num(sgn * Cents(u, <<>>))
             ELSE ValueError
        ELSE LET p  == SetMin(dots)
                 ip == SubSeq(u, 1, p - 1)
                 fp == SubSeq(u, p + 1, Len(u))
             IN  IF IsDigits(ip) /\ IsDigits(fp) /\ Len(ip) + Len(fp) > 0
                 THEN Num(sgn * Cents(ip, fp))
                 ELSE ValueError

\* a YYYY-MM-DD literal naming a month and a day
IsISODate(s) ==
    /\ Len(s) = 10
    /\ s[5] = "-" /\ s[8] = "-"
    /\ IsDigits(SubSeq(s, 1, 4)) /\ IsDigits(SubSeq(s, 6, 7))
    /\ IsDigits(SubSeq(s, 9, 10))
    /\ ToNat(SubSeq(s, 6, 7)) \in 1..12
    /\ ToNat(SubSeq(s, 9, 10)) \in 1..31

\* pd.to_datetime(cell, errors="coerce"): NaT for what is no date
to_datetime(c) == IF IsISODate(c) THEN c ELSE NaT

\* pd.isna
isna(v) == v = NaN \/ v = NaT

-----------------------------------------------------------------------------
(* _parse_expenses, one loop iteration at a time *)

\* line 108: footer rows
IsTotalRow(c0) == c0 = Total \/ Contains(TotalExpenses, c0)

\* line 111
IsNamedRow(c0) ==
    Len(c0) > 0 /\ c0 # nan /\ c0 # Vendor /\ ~Contains(Report, c0)

\* the lookahead with the next row's first cell stripped before it is compared
IsCategoryHeader_Stripped(df, idx) ==
    idx + 1 < Len(df) /\ Strip(Str(df[idx + 2][1])) = Vendor

\* line 113; row index idx is 0-based as in the source
IsCategoryHeader(df, idx) ==
    idx + 1 < Len(df) /\ Str(df[idx + 2][1]) = Vendor

\* lines 116-130: the records (none or one) a transaction row appends
ParseTransaction(row, cat) ==
    LET date_val   == to_datetime(row[3])
        amount_val == Float(Remove(Remove(Str(row[4]), ","), "$"))
    IN  IF amount_val.k = "ValueError" THEN <<>>
        ELSE IF ~isna(date_val)
        THEN << [Category |-> cat, Vendor |-> row[1],
                 Date |-> date_val, Amount |-> amount_val] >>
        ELSE <<>>

\* lines 106-130: the body of the loop on row idx
ParseRowStep(df, idx, cat, list) ==
    LET row == df[idx + 1]
        c0  == Strip(Str(row[1]))
    IN  IF IsTotalRow(c0) THEN [curr_cat |-> cat, expenses_list |-> list]
        ELSE IF IsNamedRow(c0)
        THEN IF IsCategoryHeader(df, idx)
             THEN [curr_cat |-> c0, expenses_list |-> list]
             ELSE IF cat # None /\ Len(cat) > 0
             THEN [curr_cat |-> cat,
                   expenses_list |-> list \o ParseTransaction(row, cat)]
             ELSE [curr_cat |-> cat, expenses_list |-> list]
        ELSE [curr_cat |-> cat, expenses_list |-> list]

RECURSIVE ParseFrom(_, _, _, _)
ParseFrom(df, idx, cat, list) ==
    IF idx >= Len(df) THEN list
    ELSE LET st == ParseRowStep(df, idx, cat, list)
         IN  ParseFrom(df, idx + 1, st.curr_cat, st.expenses_list)

\* the whole function: the ledger of a table
parse_expenses(df) == ParseFrom(df, 0, None, <<>>)

-----------------------------------------------------------------------------
(* STATE after construction; Init of every specification starts from it *)

AppState ==
    [ sales_df |-> None, exp_df_raw |-> None, include_tips |-> TRUE,
      fed_income_rate |-> Num(1200), local_eit_rate |-> Num(100),
      last_pnl_data |-> <<>>, current_net_profit |-> Num(0),
      last_tax_txt |-> <<>>, report_text |-> <<>>, charts_png |-> None ]

InitSTATE == State = AppState /\ flash = <<>>

IdleParse == exp_df = <<>> /\ i = 0 /\ curr_cat = None /\ expenses_list = <<>>
IdleBuild == sales_summary = <<>> /\ expenses_df = <<>>

-----------------------------------------------------------------------------
(* Specification SpecParse: _parse_expenses on every table of the bound *)

MarkerCells == {Vendor, VendorPadded, Total, TotalExpenses, NaN, ExpenseReport}
NameCells == {Rent, AcmeCo}
DataCells == { <<Date1, Amt1234_56>>, <<Date1, NaN>>, <<Date1, AmtAbc>>,
               <<NotADate, Amt100>>, <<Date1, AmtNeg50>> }

\* every kind of first cell, with every kind of date and amount cell
ExpenseRows ==
    { <<c, NaN, NaN, NaN>> : c \in MarkerCells }
    \cup { <<c, NaN, da[1], da[2]>> : c \in NameCells, da \in DataCells }

\* the rows that make a report's layout: category names, the Vendor marker
\* (also with a trailing blank), a transaction, the footer
LayoutRows ==
    { <<c, NaN, NaN, NaN>> : c \in {Rent, Supplies, Vendor, VendorPadded, Total} }
    \cup { <<AcmeCo, NaN, Date1, Amt100>> }

ExpenseTables ==
    UNION { [1..n -> ExpenseRows] : n \in 0..MaxRows }
    \cup UNION { [1..n -> LayoutRows] : n \in 0..MaxLayoutRows }

InitParse ==
    /\ InitSTATE /\ IdleBuild
    /\ exp_df \in ExpenseTables
    /\ i = 0 /\ curr_cat = None /\ expenses_list = <<>>
    /\ pc = "loop"

ParseRow ==
    /\ pc = "loop" /\ i < Len(exp_df)
    /\ LET st == ParseRowStep(exp_df, i, curr_cat, expenses_list)
       IN  curr_cat' = st.curr_cat /\ expenses_list' = st.expenses_list
    /\ i' = i + 1
    /\ UNCHANGED <<web_vars, exp_df, sales_summary, expenses_df, pc>>

ParseReturn ==
    /\ pc = "loop" /\ i >= Len(exp_df)
    /\ expenses_df' = expenses_list
    /\ pc' = "done"
    /\ UNCHANGED <<web_vars, parse_vars, sales_summary>>

NextParse == ParseRow \/ ParseReturn

SpecParse == InitParse /\ [][NextParse]_vars

-----------------------------------------------------------------------------
(* Claims on _parse_expenses (SpecParse) *)

\* C1: every record emitted by _parse_expenses has an amount that is a real
\* (non-null, non-NaN) number.
C1_EveryAmountIsANumber ==
    \A j \in 1..Len(expenses_list) : expenses_list[j].Amount.k = "num"

C2_Label(df, j) == Strip(Str(df[j + 1][1]))

C2_PassesSkipFilters(c0) ==
    /\ c0 # Total /\ ~Contains(TotalExpenses, c0)
    /\ c0 # <<>> /\ c0 # nan /\ c0 # Vendor /\ ~Contains(Report, c0)

\* row j (0-based) is a header: it passes the filters and the first cell of
\* the row right after it is literally "Vendor"
C2_IsHeader(df, j) ==
    /\ C2_PassesSkipFilters(C2_Label(df, j))
    /\ j + 2 <= Len(df)
    /\ df[j + 2][1] = Vendor

C2_ClosestHeader(df, j) ==
    LET hs == {h \in 0..(j - 1) : C2_IsHeader(df, h)}
    IN  IF hs = {} THEN None ELSE C2_Label(df, SetMax(hs))

\* C2: rows are taken in source order; a row is a category header exactly
\* when it passes the skip filters and the next row's first cell is
\* "Vendor"; a header row emits no record; every emitted record carries the
\* label of the closest preceding header, and rows before the first header
\* emit nothing.
C2_HeaderRule ==
    /\ [](curr_cat = C2_ClosestHeader(exp_df, i))
    /\ [][ i' = i + 1 =>
            /\ C2_IsHeader(exp_df, i) => expenses_list' = expenses_list
            /\ expenses_list' # expenses_list =>
                 /\ Len(expenses_list') = Len(expenses_list) + 1
                 /\ SubSeq(expenses_list', 1, Len(expenses_list)) = expenses_list
                 /\ C2_ClosestHeader(exp_df, i) # None
                 /\ expenses_list'[Len(expenses_list')].Category
                      = C2_ClosestHeader(exp_df, i) ]_vars

\* a table with two header rows whose single record carries the label of the
\* second, closest header, which is not the label of the table's first row
C2_Witness ==
    /\ pc = "done"
    /\ Cardinality({h \in 0..(Len(exp_df) - 1) : C2_IsHeader(exp_df, h)}) = 2
    /\ Len(expenses_list) = 1
    /\ expenses_list[1].Category = C2_ClosestHeader(exp_df, Len(exp_df) - 1)
    /\ expenses_list[1].Category # C2_Label(exp_df, 0)

-----------------------------------------------------------------------------
(* _parse_sales_summary *)

\* line 93 raises IndexError on a row that has no second cell
SalesParseRaises(df) == \E r \in 1..Len(df) : Len(df[r]) < 2

\* lines 92-98: the rows that set a key
SalesRowOk(row) ==
    LET key == Strip(Str(row[1]))
    IN  /\ Len(key) > 0 /\ key # nan /\ ~isna(row[2])
        /\ Float(Str(row[2])).k # "ValueError"

\* the dict returned: a later row overwrites an earlier one of the same key
parse_sales_summary(df) ==
    LET ok   == {r \in 1..Len(df) : SalesRowOk(df[r])}
        keys == {Strip(Str(df[r][1])) : r \in ok}
    IN  [key \in keys |->
            Float(Str(df[SetMax({r \in ok : Strip(Str(df[r][1])) = key})][2]))]

-----------------------------------------------------------------------------
(* _build_report_and_tables *)

\* sales_summary.get(key, 0.0), in cents
Get(sales, key) == IF key \in DOMAIN sales THEN sales[key].n ELSE 0

\* Series.sum(): NaN entries are skipped
RECURSIVE SumAmount(_)
SumAmount(df) ==
    IF Len(df) = 0 THEN 0
    ELSE (IF df[1].Amount.k = "num" THEN df[1].Amount.n ELSE 0)
         + SumAmount(Tail(df))

ZeroDivisionError == [k |-> "ZeroDivisionError", n |-> 0, d |-> 1]

\* a / b on floats
Div(a, b) == IF b = 0 THEN ZeroDivisionError ELSE [k |-> "num", n |-> a, d |-> b]

\* the fraction without its guard
Fraction_Unguarded(x, total_rev) == Div(x, total_rev)

\* (x / total_rev) if total_rev else 0
Fraction(x, total_rev) == IF total_rev # 0 THEN Div(x, total_rev) ELSE Num(0)

cogs_cats == <<BackBar, Inventory>>
IsCogs(cat) == \E j \in 1..Len(cogs_cats) : cogs_cats[j] = cat

cogs_df(df) == SelectSeq(df, LAMBDA r : IsCogs(r.Category))
opex_df(df) == SelectSeq(df, LAMBDA r : ~IsCogs(r.Category))
OfCategory(df, cat) == SelectSeq(df, LAMBDA r : r.Category = cat)

\* lines 167-174
total_rev(sales, tips) ==
    Get(sales, NetSalesKey) + Get(sales, TaxKey) + Get(sales, PrepaymentsKey)
    + (IF tips THEN Get(sales, GratuityKey) ELSE 0)

processing_fees(sales) == Abs(Get(sales, ProcessingFeesKey))
\* the pass-through expense left out
sales_tax_expense_Dropped(sales) == 0

sales_tax_expense(sales) == Get(sales, TaxKey)

total_cogs(df) == SumAmount(cogs_df(df))
gross_margin(sales, df, tips) == total_rev(sales, tips) - total_cogs(df)

total_opex(sales, df) ==
    SumAmount(opex_df(df)) + processing_fees(sales) + sales_tax_expense(sales)

net_profit(sales, df, tips) == gross_margin(sales, df, tips) - total_opex(sales, df)

\* a data row [label, amount, fraction] and a header or spacer row [label, "", ""]
DataRow(label, amt, rev) == <<label, Num(amt), Fraction(amt, rev)>>
TextRow(label) == <<label, EmptyStr, EmptyStr>>

\* lines 191-202
RevenueRows(sales, tips) ==
    LET rev == total_rev(sales, tips)
    IN  << TextRow(L_REVENUE),
           DataRow(L_NetSales, Get(sales, NetSalesKey), rev),
           DataRow(L_TaxCollected, Get(sales, TaxKey), rev),
           DataRow(L_Prepayments, Get(sales, PrepaymentsKey), rev) >>
        \o (IF tips THEN << DataRow(L_Tips, Get(sales, GratuityKey), rev) >>
            ELSE <<>>)
        \o << <<L_TOTAL_REVENUE, Num(rev), Num(1)>>,
              TextRow(<<>>),
              TextRow(L_COGS) >>

\* the COGS line kept for every sum that is not negative
CogsRow_NonNegative(df, cat, rev) ==
    LET amt == SumAmount(OfCategory(cogs_df(df), cat))
    IN  IF amt >= 0 THEN << DataRow(<<" ", " ">> \o cat, amt, rev) >> ELSE <<>>

\* lines 204-207: one COGS category
CogsRow(df, cat, rev) ==
    LET amt == SumAmount(OfCategory(cogs_df(df), cat))
    IN  IF amt > 0 THEN << DataRow(<<" ", " ">> \o cat, amt, rev) >> ELSE <<>>

RECURSIVE CogsRowsFrom(_, _, _)
CogsRowsFrom(df, j, rev) ==
    IF j > Len(cogs_cats) THEN <<>>
    ELSE CogsRow(df, cogs_cats[j], rev) \o CogsRowsFrom(df, j + 1, rev)

\* lines 209-218
MarginRows(sales, df, tips) ==
    LET rev == total_rev(sales, tips)
    IN  << DataRow(L_TOTAL_COGS, total_cogs(df), rev),
           DataRow(L_GROSS_MARGIN, gross_margin(sales, df, tips), rev),
           TextRow(<<>>),
           TextRow(L_OPERATING_EXPENSES),
           DataRow(L_SalesTaxPaidOut, sales_tax_expense(sales), rev),
           DataRow(L_ProcessingFees, processing_fees(sales), rev) >>

\* groupby("Category")["Amount"].sum(): the groups and their sums
OpexCategories(df) == {opex_df(df)[j].Category : j \in 1..Len(opex_df(df))}
cat_total(df, cat) == SumAmount(OfCategory(opex_df(df), cat))

\* sort_values(ascending=False) with the default kind, quicksort, which is
\* not stable: every arrangement of the groups with non-increasing sums is a
\* possible result
SortedCategoryOrders(df) ==
    LET cats == OpexCategories(df)
        n    == Cardinality(cats)
    IN  { o \in [1..n -> cats] :
            /\ \A a, b \in 1..n : a # b => o[a] # o[b]
            /\ \A a \in 1..(n - 1) : cat_total(df, o[a]) >= cat_total(df, o[a + 1]) }

\* lines 220-231
OpexRows(sales, df, tips, order) ==
    LET rev == total_rev(sales, tips)
    IN  [j \in 1..Len(order) |->
            DataRow(<<" ", " ">> \o order[j], cat_total(df, order[j]), rev)]
        \o << DataRow(L_TOTAL_OPEX, total_opex(sales, df), rev),
              DataRow(L_NET_PROFIT, net_profit(sales, df, tips), rev) >>

\* last_pnl_data, for one result of the sort
StatementRows(sales, df, tips, order) ==
    RevenueRows(sales, tips)
    \o CogsRowsFrom(df, 1, total_rev(sales, tips))
    \o MarginRows(sales, df, tips)
    \o OpexRows(sales, df, tips, order)

-----------------------------------------------------------------------------
(* The boxed text: format specifications and the rendering loop *)

RECURSIVE NatStr(_)
NatStr(n) ==
    IF n < 10 THEN <<Digits[n + 1]>>
    ELSE NatStr(n \div 10) \o <<Digits[(n % 10) + 1]>>

\* n in exactly w digits, zero-filled
ZeroFill(n, w) == [j \in 1..(w - Len(NatStr(n))) |-> "0"] \o NatStr(n)

\* the integer part with thousands separators
RECURSIVE Grouped(_)
Grouped(n) ==
    IF n < 1000 THEN NatStr(n)
    ELSE Grouped(n \div 1000) \o <<",">> \o ZeroFill(n % 1000, 3)

\* f"{x:,.2f}" of an amount in cents
FormatAmount(v) ==
    (IF v.n < 0 THEN <<"-">> ELSE <<>>)
    \o Grouped(Abs(v.n) \div 100) \o <<".">> \o ZeroFill(Abs(v.n) % 100, 2)

\* n/d in tenths of a percent, rounded half to even
RoundTenths(n, d) ==
    LET q == (n * 1000) \div d
        r == (n * 1000) % d
    IN  IF 2 * r > d THEN q + 1
        ELSE IF 2 * r < d THEN q
        ELSE IF q % 2 = 0 THEN q ELSE q + 1

\* f"{(x*100):.1f}%" of the fraction n/d
FormatPercent(v) ==
    LET t == RoundTenths(Abs(v.n), Abs(v.d))
    IN  (IF (v.n < 0 /\ v.d > 0) \/ (v.n > 0 /\ v.d < 0) THEN <<"-">> ELSE <<>>)
        \o NatStr(t \div 10) \o <<".">> \o NatStr(t % 10) \o <<"%">>

\* f"{s:<w}" and f"{s:>w}"
Ljust(s, w) == s \o [j \in 1..(w - Len(s)) |-> " "]
Rjust(s, w) == [j \in 1..(w - Len(s)) |-> " "] \o s

\* one line of the report: three padded fields between the double borders,
\* or a rule named by its kind
TextLine(desc, amount, pct) ==
    [kind |-> "fields", desc |-> Ljust(desc, 40),
     amount |-> Rjust(amount, 15), pct |-> Rjust(pct, 10)]
Rule(kind) == [kind |-> kind, desc |-> <<>>, amount |-> <<>>, pct |-> <<>>]

\* _format_line
format_line(desc, amount, pct) == TextLine(desc, amount, pct)

\* lines 239-244: the branch taken for one row of last_pnl_data
RenderRow(row) ==
    IF Len(row[1]) > 0 /\ ~Truthy(row[2]) /\ ~Truthy(row[3])
    THEN TextLine(row[1], <<>>, <<>>)
    ELSE IF Len(row[1]) = 0
    THEN Rule("divider")
    ELSE format_line(row[1], FormatAmount(row[2]), FormatPercent(row[3]))

L_DESCRIPTION == <<"D","E","S","C","R","I","P","T","I","O","N">>
L_AMOUNT == <<"A","M","O","U","N","T"," ","(","$",")">>
L_PCT_OF_REV == <<"%"," ","O","F"," ","R","E","V">>

\* lines 233-246
Render(rows) ==
    << Rule("title"), Rule("top"),
       format_line(L_DESCRIPTION, L_AMOUNT, L_PCT_OF_REV), Rule("middle") >>
    \o [j \in 1..Len(rows) |-> RenderRow(rows[j])]
    \o << Rule("bottom") >>

\* every (rep, last_pnl_data, net_profit) the function can return
build_report_and_tables(sales, df, tips) ==
    { LET rows == StatementRows(sales, df, tips, order)
      IN  [ rep |-> Render(rows), last_pnl_data |-> rows,
            net_profit |-> Num(net_profit(sales, df, tips)) ]
      : order \in SortedCategoryOrders(df) }

-----------------------------------------------------------------------------
(* _calc_hanover_tax_text *)

\* floor(a * b / c) for c > 0, without forming a * b
MulDiv(a, b, c) == (a \div c) * b + ((a % c) * b) \div c

Max0(x) == IF x > 0 THEN x ELSE 0

\* The figures the text prints, in print order, in cents (each product is
\* cut to the cent); rates are in hundredths of a percent. The line holding
\* the time of the call is left out.
calc_hanover_tax_text(net, fed_rate, local_rate) ==
    LET se_tax   == MulDiv(MulDiv(net.n, 9235, 10000), 153, 1000)
        fed_inc  == MulDiv(Max0(net.n - se_tax \div 2), fed_rate.n, 10000)
        pa_state == MulDiv(net.n, 307, 10000)
        pa_local == MulDiv(net.n, local_rate.n, 10000)
        lst      == IF net.n > 1200000 THEN 5200 ELSE 0
        total    == se_tax + fed_inc + pa_state + pa_local + lst
    IN  << net, Num(se_tax), fed_rate, Num(fed_inc), Num(pa_state),
           local_rate, Num(pa_local), Num(lst), Num(total),
           Num(net.n - total) >>

-----------------------------------------------------------------------------
(* Specification SpecBuild: _build_report_and_tables on every sales summary *)
(* and ledger of the bound, its results stored as generate stores them      *)

\* a dict from (key, cents) pairs
MakeDict(pairs) ==
    [key \in {p[1] : p \in pairs} |-> Num((CHOOSE p \in pairs : p[1] = key)[2])]

SalesSummaries ==
    { MakeDict(net \cup tax \cup extra) :
        net   \in { {<<NetSalesKey, -8000>>}, {<<NetSalesKey, 100000>>} },
        tax   \in { {}, {<<TaxKey, 8000>>} },
        extra \in { {},
                    {<<GratuityKey, 5000>>},
                    {<<GratuityKey, 5000>>, <<PrepaymentsKey, 2000>>,
                     <<ProcessingFeesKey, -3000>>} } }

Record(cat, amount) ==
    [Category |-> cat, Vendor |-> AcmeCo, Date |-> Date1, Amount |-> amount]

LedgerRecords ==
    { Record(BackBar, Num(5000)), Record(BackBar, Num(-5000)),
      Record(Inventory, Num(5000)),
      Record(Rent, Num(5000)), Record(Rent, Num(-5000)), Record(Rent, NaNVal),
      Record(Supplies, Num(5000)) }

Ledgers == UNION { [1..n -> LedgerRecords] : n \in 0..MaxLedger }

InitBuild ==
    /\ State \in { [AppState EXCEPT !.include_tips = t] : t \in BOOLEAN }
    /\ flash = <<>>
    /\ IdleParse
    /\ sales_summary \in SalesSummaries
    /\ expenses_df \in Ledgers
    /\ pc = "call"

\* generate, lines 365-373: the call and the three assignments
BuildStatement ==
    /\ pc = "call"
    /\ \E res \in build_report_and_tables(sales_summary, expenses_df,
                                          State.include_tips) :
          State' = [State EXCEPT !.report_text = res.rep,
                                 !.last_pnl_data = res.last_pnl_data,
                                 !.current_net_profit = res.net_profit]
    /\ pc' = "done"
    /\ UNCHANGED <<flash, parse_vars, sales_summary, expenses_df>>

NextBuild == BuildStatement

SpecBuild == InitBuild /\ [][NextBuild]_vars

-----------------------------------------------------------------------------
(* Claims on _build_report_and_tables (SpecBuild) *)

\* the statement as stored, and what the claims compute from the arguments
Rows == State.last_pnl_data
RowsOf(label) == {j \in 1..Len(Rows) : Rows[j][1] = label}
HasAmount(row) == row[2].k # "str"
ArgGet(key) == IF key \in DOMAIN sales_summary THEN sales_summary[key].n ELSE 0
ArgTotalRevenue ==
    ArgGet(NetSalesKey) + ArgGet(TaxKey) + ArgGet(PrepaymentsKey)
    + (IF State.include_tips THEN ArgGet(GratuityKey) ELSE 0)

RECURSIVE LedgerSum(_, _)
LedgerSum(df, cats) ==
    IF Len(df) = 0 THEN 0
    ELSE (IF df[1].Category \in cats /\ df[1].Amount.k = "num"
          THEN df[1].Amount.n ELSE 0) + LedgerSum(Tail(df), cats)

LedgerCategories == {expenses_df[j].Category : j \in 1..Len(expenses_df)}

\* C3 (as stated): with total_revenue = 0 every line of the statement has
\* fraction 0, and no division faults.
C3_EveryFractionZero ==
    (pc = "done" /\ ArgTotalRevenue = 0) =>
        \A j \in 1..Len(Rows) :
            HasAmount(Rows[j]) => Rows[j][3].k = "num" /\ Rows[j][3].n = 0

\* C3 (amended): with total_revenue = 0 no division faults, every data line
\* other than TOTAL REVENUE has fraction 0, and TOTAL REVENUE has fraction 1.
C3_FractionZeroExceptTotalRevenue ==
    (pc = "done" /\ ArgTotalRevenue = 0) =>
        \A j \in 1..Len(Rows) :
            HasAmount(Rows[j]) =>
                /\ Rows[j][3].k = "num"
                /\ Rows[j][1] # L_TOTAL_REVENUE => Rows[j][3].n = 0
                /\ Rows[j][1] = L_TOTAL_REVENUE =>
                      Rows[j][3].n = 1 /\ Rows[j][3].d = 1

\* a statement built on zero revenue that has non-zero amounts to divide
C3_Witness ==
    /\ pc = "done" /\ ArgTotalRevenue = 0
    /\ \E j \in 1..Len(Rows) : HasAmount(Rows[j]) /\ Rows[j][2].n # 0

C4_FirstSeen(cat) ==
    SetMin({j \in 1..Len(expenses_df) : expenses_df[j].Category = cat})
C4_LineOf(cat) == SetMin(RowsOf(<<" ", " ">> \o cat))

\* C4: the non-COGS category lines are in descending order of summed amount,
\* and categories of equal sum are in first-encountered order of the ledger.
C4_DescendingFirstSeenOnTies ==
    pc = "done" =>
        \A a, b \in LedgerCategories \ {BackBar, Inventory} :
            /\ RowsOf(<<" ", " ">> \o a) # {}
            /\ ( \/ LedgerSum(expenses_df, {a}) > LedgerSum(expenses_df, {b})
                 \/ /\ LedgerSum(expenses_df, {a}) = LedgerSum(expenses_df, {b})
                    /\ C4_FirstSeen(a) < C4_FirstSeen(b) )
               => C4_LineOf(a) < C4_LineOf(b)

\* C5: a COGS category has a line if and only if its summed amount is
\* strictly positive, and TOTAL COGS is the sum over both COGS categories,
\* the ones without a line included.
C5_CogsLineIffPositive ==
    pc = "done" =>
        /\ \A cat \in {BackBar, Inventory} :
              RowsOf(<<" ", " ">> \o cat) # {}
                  <=> LedgerSum(expenses_df, {cat}) > 0
        /\ \A j \in RowsOf(L_TOTAL_COGS) :
              Rows[j][2] = Num(LedgerSum(expenses_df, {BackBar, Inventory}))
        /\ RowsOf(L_TOTAL_COGS) # {}

\* Back Bar sums to a negative amount and has no line, Inventory has one,
\* and TOTAL COGS holds both sums
C5_Witness ==
    /\ pc = "done"
    /\ LedgerSum(expenses_df, {BackBar}) < 0
    /\ LedgerSum(expenses_df, {Inventory}) > 0
    /\ RowsOf(<<" ", " ">> \o BackBar) = {}
    /\ RowsOf(<<" ", " ">> \o Inventory) # {}

\* C8: net_profit is Net Sales + Prepayments + (Gratuity if include_tips)
\* - all ledger amounts - |processing fees|, whatever the value of "Tax";
\* the Tax amount is on the Tax Collected line and on the Sales Tax Paid Out
\* line.
C8_TaxNetsToZero ==
    pc = "done" =>
        /\ State.current_net_profit =
              Num( ArgGet(NetSalesKey) + ArgGet(PrepaymentsKey)
                   + (IF State.include_tips THEN ArgGet(GratuityKey) ELSE 0)
                   - LedgerSum(expenses_df, LedgerCategories)
                   - Abs(ArgGet(ProcessingFeesKey)) )
        /\ RowsOf(L_TaxCollected) # {} /\ RowsOf(L_SalesTaxPaidOut) # {}
        /\ \A j \in RowsOf(L_TaxCollected) \cup RowsOf(L_SalesTaxPaidOut) :
              Rows[j][2] = Num(ArgGet(TaxKey))

\* a statement built from a summary with a non-zero Tax, fees and a ledger
C8_Witness ==
    /\ pc = "done"
    /\ ArgGet(TaxKey) # 0 /\ ArgGet(ProcessingFeesKey) < 0
    /\ Len(expenses_df) > 0

C9_Blank(s) == \A j \in 1..Len(s) : s[j] = " "

\* the rendered line of statement row j: four lines precede the rows
C9_LineOf(j) == State.report_text[j + 4]

\* C9: the row kind is decided by the presence of amount and fraction: every
\* data line renders its formatted amount and percentage, also when both are
\* 0, and only section-header lines render blank amount and percent fields.
C9_DataLinesRenderFigures ==
    pc = "done" =>
        \A j \in 1..Len(Rows) :
            Len(Rows[j][1]) > 0 =>
                /\ C9_LineOf(j).kind = "fields"
                /\ HasAmount(Rows[j]) <=> ~C9_Blank(C9_LineOf(j).amount)
                /\ HasAmount(Rows[j]) <=> ~C9_Blank(C9_LineOf(j).pct)

-----------------------------------------------------------------------------
(* Uploaded files and form fields *)

SalesCsv == <<"s","a","l","e","s",".","c","s","v">>
SalesXlsx == <<"S","a","l","e","s",".","X","L","S","X">>
ExpCsv == <<"E","X","P",".","C","S","V">>
DotCsv == <<".","c","s","v">>
Amt80 == <<"8","0">>
Amt50 == <<"5","0">>
Amt15000 == <<"1","5","0","0","0">>
Rate15 == <<"1","5">>
On == <<"o","n">>
UpperCase == <<"A","B","C","D","E","F","G","H","I","J","K","L","M","N","O","P","Q","R","S","T","U","V","W","X","Y","Z">>
LowerCase == <<"a","b","c","d","e","f","g","h","i","j","k","l","m","n","o","p","q","r","s","t","u","v","w","x","y","z">>

\* s.lower()
Lower(s) ==
    [j \in 1..Len(s) |->
        IF \E u \in 1..Len(UpperCase) : UpperCase[u] = s[j]
        THEN LowerCase[CHOOSE u \in 1..Len(UpperCase) : UpperCase[u] = s[j]]
        ELSE s[j]]

\* s.endswith(suffix)
EndsWith(s, suffix) ==
    Len(s) >= Len(suffix)
    /\ SubSeq(s, Len(s) - Len(suffix) + 1, Len(s)) = suffix

\* a FileStorage: its name, what its bytes are (a csv text, a workbook, or
\* neither) and the table they hold; NoFile is a field the form did not send
File(name, format, table) ==
    [present |-> TRUE, filename |-> name, format |-> format, table |-> table]
NoFile == [present |-> FALSE, filename |-> <<>>, format |-> "none", table |-> <<>>]

DataFrame(rows) == <<"DataFrame", rows>>
RowsOfFrame(df) == df[2]

SalesTable ==
    << <<NetSalesKey, Amt100>>, <<NetSalesKey, Amt15000>>, <<TaxKey, Amt80>>,
       <<GratuityKey, Amt50>>, <<NaN, NaN>>, <<PrepaymentsKey, AmtAbc>> >>
SalesTableOneColumn == << <<NetSalesKey>>, <<TaxKey>> >>

ExpenseTable ==
    << <<ExpenseReport, NaN, NaN, NaN>>,
       <<Rent, NaN, NaN, NaN>>, <<Vendor, NaN, NaN, NaN>>,
       <<AcmeCo, NaN, Date1, Amt1234_56>>, <<AcmeCo, NaN, Date1, NaN>>,
       <<Total, NaN, NaN, Amt1234_56>> >>
ExpenseTableRefund ==
    << <<Supplies, NaN, NaN, NaN>>, <<Vendor, NaN, NaN, NaN>>,
       <<AcmeCo, NaN, Date1, AmtNeg50>> >>

SalesFiles ==
    { NoFile,
      File(SalesCsv, "csv", SalesTable),
      File(SalesXlsx, "workbook", SalesTableOneColumn),
      File(SalesCsv, "neither", <<>>) }

ExpenseFiles ==
    { NoFile,
      File(ExpCsv, "csv", ExpenseTable),
      File(ExpCsv, "csv", ExpenseTableRefund),
      File(ExpCsv, "workbook", ExpenseTable) }

TipFields == {None, On}
RateFields == {None, Rate15, AmtAbc}

-----------------------------------------------------------------------------
(* The handlers *)

\* bool(file_storage) and bool(file_storage.filename)
FileGiven(f) == f.present /\ Len(f.filename) > 0

\* _read_sales_file / _read_expenses_file: the reader is chosen by the
\* extension, and raises on bytes that are not in its format
ReadRaises(f) ==
    IF EndsWith(Lower(f.filename), DotCsv) THEN f.format # "csv"
    ELSE f.format # "workbook"
ReadFile(f) == DataFrame(f.table)

\* the state a handler leaves and the message it flashes; a failure message
\* ends with the exception caught, named here by what raised it
Outcome(S, message, category) == [State |-> S, flash |-> <<message, "", category>>]
Failure(S, message, e) == [State |-> S, flash |-> <<message, e, "danger">>]

\* upload with the sales table stored as soon as it is read
upload_StoreAsRead(S, sales_file, exp_file) ==
    IF ~FileGiven(sales_file) \/ ~FileGiven(exp_file)
    THEN Outcome(S, "Please choose BOTH Sales and Expenses files.", "danger")
    ELSE IF ReadRaises(sales_file)
    THEN Failure(S, "File load failed: ", "_read_sales_file")
    ELSE IF ReadRaises(exp_file)
    THEN Failure([S EXCEPT !.sales_df = ReadFile(sales_file)],
                 "File load failed: ", "_read_expenses_file")
    ELSE Outcome([S EXCEPT !.sales_df = ReadFile(sales_file),
                           !.exp_df_raw = ReadFile(exp_file)],
                 "Files loaded successfully!", "success")

\* upload, lines 334-350
upload(S, sales_file, exp_file) ==
    IF ~FileGiven(sales_file) \/ ~FileGiven(exp_file)
    THEN Outcome(S, "Please choose BOTH Sales and Expenses files.", "danger")
    ELSE IF ReadRaises(sales_file)
    THEN Failure(S, "File load failed: ", "_read_sales_file")
    ELSE IF ReadRaises(exp_file)
    THEN Failure(S, "File load failed: ", "_read_expenses_file")
    ELSE Outcome([S EXCEPT !.sales_df = ReadFile(sales_file),
                           !.exp_df_raw = ReadFile(exp_file)],
                 "Files loaded successfully!", "success")

\* bool(request.form.get("include_tips"))
FieldBool(field) == field # None /\ Len(field) > 0

\* _draw_charts_png: the pie chart raises ValueError on a negative wedge,
\* that is on a category whose amounts sum below zero
DrawChartsRaises(df) ==
    \E cat \in {df[j].Category : j \in 1..Len(df)} :
        SumAmount(OfCategory(df, cat)) < 0

\* what the image shows: the (at most five) vendors of largest summed
\* amount, and the summed amount of every category
draw_charts_png(df) ==
    LET vendors == {df[j].Vendor : j \in 1..Len(df)}
        spend(v) == SumAmount(SelectSeq(df, LAMBDA r : r.Vendor = v))
        top     == {v \in vendors :
                      Cardinality({w \in vendors : spend(w) > spend(v)}) < 5}
    IN  << "PNG",
           {<<v, spend(v)>> : v \in top},
           {<<c, SumAmount(OfCategory(df, c))>> :
               c \in {df[j].Category : j \in 1..Len(df)}} >>

\* generate, lines 354-390: every outcome
generate(S, tips_field) ==
    IF S.sales_df = None \/ S.exp_df_raw = None
    THEN { Outcome(S, "Load files first!", "danger") }
    ELSE
      LET S1 == [S EXCEPT !.include_tips = FieldBool(tips_field)]
      IN  IF SalesParseRaises(RowsOfFrame(S1.sales_df))
          THEN { Failure(S1, "Processing failed: ", "_parse_sales_summary") }
          ELSE
            LET sales  == parse_sales_summary(RowsOfFrame(S1.sales_df))
                ledger == parse_expenses(RowsOfFrame(S1.exp_df_raw))
            IN  { LET S2 == [S1 EXCEPT !.report_text = res.rep,
                                        !.last_pnl_data = res.last_pnl_data,
                                        !.current_net_profit = res.net_profit]
                      S3 == [S2 EXCEPT !.last_tax_txt =
                                calc_hanover_tax_text(S2.current_net_profit,
                                                      S2.fed_income_rate,
                                                      S2.local_eit_rate)]
                  IN  IF DrawChartsRaises(ledger)
                      THEN Failure(S3, "Processing failed: ", "_draw_charts_png")
                      ELSE Outcome([S3 EXCEPT !.charts_png = draw_charts_png(ledger)],
                                   "Report generated!", "success")
                  : res \in build_report_and_tables(sales, ledger, S1.include_tips) }

\* float(request.form.get(name, default))
FieldFloat(field, default) == IF field = None THEN default ELSE Float(field)

\* tax (POST), lines 443-458
tax(S, fed_field, local_field) ==
    LET fed   == FieldFloat(fed_field, S.fed_income_rate)
        S1    == [S EXCEPT !.fed_income_rate = fed]
        local == FieldFloat(local_field, S1.local_eit_rate)
        S2    == [S1 EXCEPT !.local_eit_rate = local]
    IN  IF fed.k = "ValueError"
        THEN Failure(S, "Could not recalculate: ", "fed_income_rate")
        ELSE IF local.k = "ValueError"
        THEN Failure(S1, "Could not recalculate: ", "local_eit_rate")
        ELSE Outcome([S2 EXCEPT !.last_tax_txt =
                         calc_hanover_tax_text(S2.current_net_profit,
                                               S2.fed_income_rate,
                                               S2.local_eit_rate)],
                     "Tax recalculated!", "success")

\* pnl (POST), lines 315-322
pnl(S, tips_field) ==
    Outcome([S EXCEPT !.include_tips = FieldBool(tips_field)],
            "Settings updated.", "info")

-----------------------------------------------------------------------------
(* Specification Spec: the POST requests, in any order *)

Init == InitSTATE /\ IdleParse /\ IdleBuild /\ pc = "serving"

Upload ==
    \E sales_file \in SalesFiles, exp_file \in ExpenseFiles :
        /\ State' = upload(State, sales_file, exp_file).State
        /\ flash' = upload(State, sales_file, exp_file).flash
        /\ UNCHANGED <<parse_vars, sales_summary, expenses_df, pc>>

Generate ==
    \E field \in TipFields :
        \E out \in generate(State, field) :
            /\ State' = out.State
            /\ flash' = out.flash
            /\ UNCHANGED <<parse_vars, sales_summary, expenses_df, pc>>

Tax ==
    \E fed \in RateFields, local \in RateFields :
        /\ State' = tax(State, fed, local).State
        /\ flash' = tax(State, fed, local).flash
        /\ UNCHANGED <<parse_vars, sales_summary, expenses_df, pc>>

Pnl ==
    \E field \in TipFields :
        /\ State' = pnl(State, field).State
        /\ flash' = pnl(State, field).flash
        /\ UNCHANGED <<parse_vars, sales_summary, expenses_df, pc>>

Next == Upload \/ Generate \/ Tax \/ Pnl

Spec == Init /\ [][Next]_vars

-----------------------------------------------------------------------------
(* Claims on the handlers *)

\* C6: an upload in which a file cannot be read changes nothing of STATE:
\* sales_df and exp_df_raw (and every other field) hold the values they had
\* before it, also when the sales file was read and only the expenses file
\* failed.
C6_FailedUploadKeepsState ==
    [][ flash'[1] = "File load failed: " => State' = State ]_vars

\* files are loaded, and the last upload failed in reading its expenses file
\* after its sales file had been read
C6_Witness ==
    /\ flash = <<"File load failed: ", "_read_expenses_file", "danger">>
    /\ State.sales_df # None
    /\ State.exp_df_raw # None

\* C7: a generation attempt that fails retains no partial output: report_text,
\* last_pnl_data, current_net_profit, last_tax_txt and charts_png are what they
\* were before the attempt.
C7_FailedGenerateKeepsOutputs ==
    [][ flash'[1] = "Processing failed: " =>
            /\ State'.report_text = State.report_text
            /\ State'.last_pnl_data = State.last_pnl_data
            /\ State'.current_net_profit = State.current_net_profit
            /\ State'.last_tax_txt = State.last_tax_txt
            /\ State'.charts_png = State.charts_png ]_vars

\* C10: whenever last_tax_txt is not empty it is the tax text of the current
\* net profit and the two stored rates, and a /tax POST that fails leaves the
\* rates and the text as they were.
C10_TaxTextIsCurrent ==
    /\ [](State.last_tax_txt # <<>> =>
            State.last_tax_txt = calc_hanover_tax_text(State.current_net_profit,
                                                       State.fed_income_rate,
                                                       State.local_eit_rate))
    /\ [][ flash'[1] = "Could not recalculate: " =>
            /\ State'.fed_income_rate = State.fed_income_rate
            /\ State'.local_eit_rate = State.local_eit_rate
            /\ State'.last_tax_txt = State.last_tax_txt ]_vars

====
